---- MODULE Spec2Model ----
(***************************************************************************)
(* Model of src/log_monitor.py: the LogMonitor cycle (check_files), the    *)
(* per-application scan (analyze_file), the per-instance streaming scan    *)
(* (_process_log_stream) with its checkpoint files, and the alert mails    *)
(* (send_email).                                                           *)
(*                                                                         *)
(* Text is a sequence of one-character strings over Alphabet.  The marker  *)
(* token "INFO" of the source is abbreviated to the single symbol "I".     *)
(***************************************************************************)
EXTENDS Integers, Sequences, FiniteSets, TLC

\* ------------------------------------------------------------------ bounds
MaxLines == 2     \* longest response body of the single-instance scans, in lines
MaxBody == 2      \* longest response body inside a full cycle, in lines
MaxCycles == 2    \* cycles (check_files calls) of one run
MaxText == 4      \* longest line and longest search string of the matching check

\* -------------------------------------------------------------------- text
Alphabet == {" ", "1", "2", "E", "I", "e"}

\* Code-point order of the symbols used (space < digits < upper case < lower case).
Ord(c) ==
    CASE c = " " -> 0 [] c = "1" -> 1 [] c = "2" -> 2 [] c = "E" -> 3 [] c = "I" -> 4
      [] c = "e" -> 5

\* Python's None (Optional[str]); no text equals it.
None == <<"None">>

\* Python str comparison a < b: lexicographic by code point, a proper prefix is smaller.
StrLess(a, b) ==
    \E k \in 1..Len(b) :
        /\ k <= Len(a) + 1
        /\ \A j \in 1..(k - 1) : a[j] = b[j]
        /\ (k = Len(a) + 1 \/ Ord(a[k]) < Ord(b[k]))

\* Python a > b
StrGreater(a, b) == StrLess(b, a)

RECURSIVE LStrip(_)
LStrip(s) == IF s # <<>> /\ Head(s) = " " THEN LStrip(Tail(s)) ELSE s

RECURSIVE RStrip(_)
RStrip(s) == IF s # <<>> /\ s[Len(s)] = " " THEN RStrip(SubSeq(s, 1, Len(s) - 1)) ELSE s

\* str.strip()
Strip(s) == RStrip(LStrip(s))

\* str.split() read from position i on, word being the run of non-blank symbols
\* collected so far: a blank ends the run, a run that is empty yields no word
RECURSIVE Words(_, _, _)
Words(s, i, word) ==
    IF i > Len(s) THEN (IF word = <<>> THEN <<>> ELSE <<word>>)
    ELSE IF s[i] # " " THEN Words(s, i + 1, Append(word, s[i]))
    ELSE IF word = <<>> THEN Words(s, i + 1, <<>>)
    ELSE <<word>> \o Words(s, i + 1, <<>>)

\* str.split(): the maximal runs of non-whitespace symbols, in order
Split(s) == Words(s, 1, <<>>)

\* ' '.join(words)
RECURSIVE Join(_)
Join(words) ==
    IF words = <<>> THEN <<>>
    ELSE IF Len(words) = 1 THEN words[1]
    ELSE words[1] \o <<" ">> \o Join(Tail(words))

\* Mutant of Normalize: the ends are trimmed, inner runs of spaces are kept
NormalizeStripOnly(s) == Strip(s)

\* ' '.join(s.split())
Normalize(s) == Join(Split(s))

\* sub in s (contiguous substring)
Contains(sub, s) ==
    \E i \in 0..(Len(s) - Len(sub)) : SubSeq(s, i + 1, i + Len(sub)) = sub

\* "INFO" in line
HasInfo(line) == \E i \in 1..Len(line) : line[i] = "I"

\* line.split("INFO", 1)[0]
BeforeInfo(line) ==
    LET i == CHOOSE k \in 1..Len(line) : line[k] = "I" /\ \A j \in 1..(k - 1) : line[j] # "I"
    IN  SubSeq(line, 1, i - 1)

\* _extract_date: the stripped text before the first INFO, None when it is empty
ExtractDate(line) ==
    LET d == Strip(BeforeInfo(line)) IN IF d # <<>> THEN d ELSE None

\* the test of _check_pattern
CheckPattern(line, search_string) == Contains(Normalize(search_string), Normalize(line))

\* ------------------------------------------------------- configuration
\* SearchPattern records of patterns.json (type, search_string, mail, app_name)
P1 == [type |-> "ERR", search_string |-> <<"E">>, mail |-> <<"r1", "r2">>, app_name |-> "a"]
P2 == [type |-> "TWO", search_string |-> <<"2">>, mail |-> <<"r3">>, app_name |-> "a"]

Apps == {"a"}
Instances == {"i1", "i2"}
Keys == Apps \X Instances

\* Lines the log endpoint may serve: "", "1 I", "1 I E", "2 I E", "11 I E", "E", "I E", "2"
Lines ==
    { <<>>,
      <<"1", " ", "I">>,
      <<"1", " ", "I", " ", "E">>,
      <<"2", " ", "I", " ", "E">>,
      <<"1", "1", " ", "I", " ", "E">>,
      <<"E">>,
      <<"I", " ", "E">>,
      <<"2">> }

\* Lines served inside the full cycle: "1 I", "2 I E", "E"
CycleLines ==
    { <<"1", " ", "I">>,
      <<"2", " ", "I", " ", "E">>,
      <<"E">> }

\* Response bodies of at most n lines over the line set L
Bodies(L, n) == UNION { [1..k -> L] : k \in 0..n }

\* Checkpoint texts a last_check file may hold from an earlier run
Stamps == { <<"1">>, <<"2">>, <<"1", "1">> }

\* Checkpoint texts present when the full cycle starts
CycleStamps == { <<"1">> }

\* Results of the deployments request: instance ids in discovery order
Discoveries == { <<>>, <<"i1">>, <<"i1", "i2">>, <<"i2", "i1">> }

\* ------------------------------------------------------------------ state
VARIABLES
    search_patterns,  \* LogMonitor.search_patterns
    store,            \* last_check/<app>_<instance>.txt : text, or None when the file is absent
    pc,               \* "idle" | "auth" | "discover" | "open" | "scan" | "exited"
    cycle,            \* number of check_files calls started
    auth_token,       \* check_files: what get_auth_token gave in the current cycle
    pidx,             \* check_files: index of the pattern being checked
    cyc_found,        \* check_files: found_matches
    ids,              \* analyze_file: instance_ids
    iidx,             \* analyze_file: position of instance_id in instance_ids
    found_matches,    \* analyze_file: found_matches
    feed,             \* the response body being streamed, as lines
    last_check_date,  \* _process_log_stream argument
    line_number,      \* _process_log_stream: lines read so far
    last_date,        \* _process_log_stream: last_date
    start_checking,   \* _process_log_stream: start_checking
    pattern_found,    \* _process_log_stream: pattern_found
    events,           \* line numbers for which _handle_pattern_match was called, in order
    faulted,          \* line numbers whose processing raised inside the try block
    mail,             \* the last send_email call: line and time of the body,
                      \* recipients attempted, delivered
    outcome,          \* how the last scan ended: "none" | "running" | "normal" | "aborted"
                      \* | "unsaved"
    notified,         \* send_email: deliveries attempted since the scan began
    bounced,          \* send_email: a delivery of this scan raised
    emitted,          \* _handle_pattern_match was called in this cycle
    ended,            \* how check_files returned: "none" | "summary" | "error"
    due               \* schedule: the job's next_run time has passed

scanvars == <<feed, last_check_date, line_number, last_date, start_checking,
              pattern_found, events, faulted, mail, outcome, notified, bounced>>
vars == <<search_patterns, store, pc, cycle, auth_token, pidx, cyc_found, ids, iidx, found_matches,
          feed, last_check_date, line_number, last_date, start_checking,
          pattern_found, events, faulted, mail, outcome, notified, bounced,
          emitted, ended, due>>

NoMail == [line |-> 0, time |-> None, attempted |-> <<>>, delivered |-> <<>>]

pattern == search_patterns[pidx]
instance_id == ids[iidx]
key == <<pattern.app_name, instance_id>>

InitLocals ==
    /\ pc = "idle"
    /\ cycle = 0
    /\ auth_token = "none"
    /\ pidx = 1
    /\ cyc_found = FALSE
    /\ ids = <<>>
    /\ iidx = 1
    /\ found_matches = FALSE
    /\ last_check_date = None
    /\ line_number = 0
    /\ last_date = None
    /\ start_checking = TRUE
    /\ pattern_found = FALSE
    /\ events = <<>>
    /\ faulted = {}
    /\ mail = NoMail
    /\ outcome = "none"
    /\ notified = 0
    /\ bounced = FALSE
    /\ emitted = FALSE
    /\ ended = "none"
    /\ due = FALSE

InitProgram == InitLocals /\ feed = <<>>

\* After __init__: two patterns loaded, checkpoint files left by an earlier run or none
Init ==
    /\ search_patterns = <<P1, P2>>
    /\ store \in [Keys -> {None} \cup CycleStamps]
    /\ InitProgram

\* ---------------------------------------------------------------- actions
\* run: a call of check_files, the initial one or one made by run_pending.  The locals
\* of the scans of the cycle before are gone; the body served last stays with the platform.
CheckFilesCall ==
    /\ pc = "idle"
    /\ cycle < MaxCycles
    /\ cycle' = cycle + 1
    /\ pc' = "auth"
    /\ auth_token' = "none"
    /\ last_check_date' = None
    /\ line_number' = 0
    /\ last_date' = None
    /\ start_checking' = TRUE
    /\ pattern_found' = FALSE
    /\ events' = <<>>
    /\ faulted' = {}
    /\ mail' = NoMail
    /\ outcome' = "none"
    /\ notified' = 0
    /\ bounced' = FALSE
    /\ emitted' = FALSE
    /\ ended' = "none"
    /\ UNCHANGED <<search_patterns, store, pidx, cyc_found, ids, iidx, found_matches, feed>>

\* run, with the timer left out: a call of check_files whenever the loop is idle
Trigger == CheckFilesCall /\ UNCHANGED due

\* check_files: the for loop moves to the next pattern, or the summary line ends the cycle
AfterPattern(result) ==
    /\ cyc_found' = (cyc_found \/ result)
    /\ IF pidx < Len(search_patterns)
       THEN pidx' = pidx + 1 /\ pc' = "discover" /\ ended' = ended
       ELSE pidx' = pidx /\ pc' = "idle" /\ ended' = "summary"

\* Mutant of Auth: the RequestException of get_auth_token ends the cycle like any
\* other exception instead of the process
AuthCaught(result) ==
    /\ pc = "auth"
    /\ auth_token' = result
    /\ IF result = "ok"
       THEN /\ cyc_found' = FALSE
            /\ pidx' = 1
            /\ pc' = IF Len(search_patterns) = 0 THEN "idle" ELSE "discover"
            /\ ended' = IF Len(search_patterns) = 0 THEN "summary" ELSE ended
       ELSE /\ pc' = "idle"
            /\ ended' = "error"
            /\ UNCHANGED <<cyc_found, pidx>>
    /\ UNCHANGED <<search_patterns, store, cycle, ids, iidx, found_matches, emitted, due>>
    /\ UNCHANGED scanvars

\* get_auth_token inside check_files.  "ok": a token is returned; "request_error":
\* requests.RequestException, handled by sys.exit(1), which no "except Exception"
\* catches; "other_error": any other exception (an answer without access_token),
\* caught by check_files.
Auth(result) ==
    /\ pc = "auth"
    /\ auth_token' = result
    /\ CASE result = "ok" ->
              /\ cyc_found' = FALSE
              /\ pidx' = 1
              /\ pc' = IF Len(search_patterns) = 0 THEN "idle" ELSE "discover"
              /\ ended' = IF Len(search_patterns) = 0 THEN "summary" ELSE ended
         [] result = "request_error" ->
              /\ pc' = "exited"
              /\ UNCHANGED <<cyc_found, pidx, ended>>
         [] result = "other_error" ->
              /\ pc' = "idle"
              /\ ended' = "error"
              /\ UNCHANGED <<cyc_found, pidx>>
    /\ UNCHANGED <<search_patterns, store, cycle, ids, iidx, found_matches, emitted, due>>
    /\ UNCHANGED scanvars

\* Mutant of Discover: a failed discovery raises out of analyze_file and ends the cycle
DiscoverRaises(found) ==
    /\ pc = "discover"
    /\ IF found = <<>>
       THEN /\ pc' = "idle"
            /\ ended' = "error"
            /\ UNCHANGED <<ids, iidx, found_matches, cyc_found, pidx>>
       ELSE /\ ids' = found
            /\ iidx' = 1
            /\ found_matches' = FALSE
            /\ pc' = "open"
            /\ UNCHANGED <<cyc_found, pidx, ended>>
    /\ UNCHANGED <<search_patterns, store, cycle, auth_token, emitted, due>>
    /\ UNCHANGED scanvars

\* analyze_file, first part: get_instance_ids (which answers [] on any failure)
Discover(found) ==
    /\ pc = "discover"
    /\ IF found = <<>>
       THEN /\ AfterPattern(FALSE)
            /\ UNCHANGED <<ids, iidx, found_matches>>
       ELSE /\ ids' = found
            /\ iidx' = 1
            /\ found_matches' = FALSE
            /\ pc' = "open"
            /\ UNCHANGED <<cyc_found, pidx, ended>>
    /\ UNCHANGED <<search_patterns, store, cycle, auth_token, emitted, due>>
    /\ UNCHANGED scanvars

\* Mutant of GetLastCheckDate: a missing file reads as the empty string
GetLastCheckDateEmpty(k) == IF store[k] = None THEN <<>> ELSE Strip(store[k])

\* _get_last_check_date
GetLastCheckDate(k) == IF store[k] = None THEN None ELSE Strip(store[k])

\* analyze_file: one turn of the instance loop up to the call of _process_log_stream.
\* "ok": the response is streamed; "request_error": requests.get or raise_for_status
\* raises RequestException, there is no body, and analyze_file returns False.
OpenStream(result, body) ==
    /\ pc = "open"
    /\ last_check_date' = GetLastCheckDate(key)
    /\ IF result = "ok"
       THEN /\ feed' = body
            /\ line_number' = 0
            /\ last_date' = None
            /\ start_checking' = (GetLastCheckDate(key) = None)
            /\ pattern_found' = FALSE
            /\ events' = <<>>
            /\ faulted' = {}
            /\ mail' = NoMail
            /\ outcome' = "running"
            /\ notified' = 0
            /\ bounced' = FALSE
            /\ pc' = "scan"
            /\ UNCHANGED <<cyc_found, pidx, ended>>
       ELSE /\ body = <<>>
            /\ AfterPattern(FALSE)
            /\ UNCHANGED <<feed, line_number, last_date, start_checking, pattern_found,
                           events, faulted, mail, outcome, notified, bounced>>
    /\ UNCHANGED <<search_patterns, store, cycle, auth_token, ids, iidx, found_matches,
                   emitted, due>>

\* Mutant of Gate: >= in place of >
GateOrEqual(current_date, check_date) == ~StrLess(current_date, check_date)

\* The gate test of _process_log_stream: current_date > last_check_date
Gate(current_date, check_date) == StrGreater(current_date, check_date)

\* Mutant of StartChecking: the gate is evaluated anew at every marker line
StartCheckingRecomputed(current_date) ==
    IF current_date # None
    THEN last_check_date = None \/ Gate(current_date, last_check_date)
    ELSE start_checking

\* _process_log_stream: start_checking after the INFO block of a line, which
\* only ever sets it
StartChecking(current_date) ==
    start_checking \/ (current_date # None /\ Gate(current_date, last_check_date))

\* Mutant of SendEmail: one message, to the first recipient only
SendEmailFirstOnly(recipients, fail) ==
    LET first == IF recipients = <<>> THEN <<>> ELSE <<recipients[1]>>
    IN  [attempted |-> first, delivered |-> IF fail = 0 THEN first ELSE <<>>]

\* send_email: one try around the recipient loop; fail is the position of the
\* recipient whose delivery raises, 0 when none does
SendEmail(recipients, fail) ==
    [attempted |-> IF fail = 0 THEN recipients ELSE SubSeq(recipients, 1, fail),
     delivered |-> IF fail = 0 THEN recipients ELSE SubSeq(recipients, 1, fail - 1)]

\* _process_log_stream: the line loop goes on with the next line
Continue == UNCHANGED <<pc, pidx, cyc_found, outcome, ended>>

\* Mutant of Except: the exception of one line leaves the scan
ExceptAborts(n) ==
    /\ faulted' = faulted \cup {n}
    /\ outcome' = "aborted"
    /\ AfterPattern(FALSE)

\* _process_log_stream: "except Exception" of the line loop: logged, then continue
Except(n) ==
    /\ faulted' = faulted \cup {n}
    /\ Continue

\* _process_log_stream: one turn of the line loop.  fault: "none"; "early", an
\* exception inside the try block before last_date is assigned; "handler", an
\* exception in _handle_pattern_match before send_email is called.
ReadLine(fault, fail) ==
    /\ pc = "scan"
    /\ line_number < Len(feed)
    /\ LET line == feed[line_number + 1]
           n == line_number + 1
           current_date == IF HasInfo(line) THEN ExtractDate(line) ELSE None
           opened == StartChecking(current_date)
           called == opened /\ CheckPattern(line, pattern.search_string)
           handled == line # <<>> /\ fault # "early" /\ called
           sent == IF handled /\ fault = "none" /\ fail <= Len(pattern.mail)
                   THEN SendEmail(pattern.mail, fail) ELSE SendEmail(<<>>, 0)
       IN  /\ line_number' = n
           /\ emitted' = (emitted \/ handled)
           /\ notified' = notified + Len(sent.attempted)
           /\ bounced' = (bounced \/ Len(sent.delivered) < Len(sent.attempted))
           /\ IF line = <<>>
              THEN /\ fault = "none" /\ fail = 0
                   /\ Continue
                   /\ UNCHANGED <<last_date, start_checking, pattern_found, events,
                                  faulted, mail>>
              ELSE IF fault = "early"
              THEN /\ fail = 0
                   /\ Except(n)
                   /\ UNCHANGED <<last_date, start_checking, pattern_found, events, mail>>
              ELSE /\ last_date' = IF current_date # None THEN current_date ELSE last_date
                   /\ start_checking' = opened
                   /\ IF ~called
                      THEN /\ fault = "none" /\ fail = 0
                           /\ Continue
                           /\ UNCHANGED <<pattern_found, events, faulted, mail>>
                      ELSE /\ events' = Append(events, n)
                           /\ IF fault = "handler"
                              THEN /\ fail = 0
                                   /\ Except(n)
                                   /\ UNCHANGED <<pattern_found, mail>>
                              ELSE /\ fail \in 0..Len(pattern.mail)
                                   /\ mail' = [line |-> n, time |-> last_date']
                                                   @@ SendEmail(pattern.mail, fail)
                                   /\ pattern_found' = TRUE
                                   /\ Continue
                                   /\ UNCHANGED faulted
    /\ UNCHANGED <<search_patterns, store, cycle, auth_token, ids, iidx,
                   found_matches, feed, last_check_date, due>>

\* _process_log_stream: "if last_date:" before _save_last_check_date
ShouldSave(date) == date # None

\* Mutant of EndOfStream: the scan returns at the first match, the lines after it unread
EndOfStreamOnMatch ==
    /\ pc = "scan"
    /\ (line_number = Len(feed) \/ pattern_found)
    /\ store' = IF ShouldSave(last_date) THEN [store EXCEPT ![key] = last_date] ELSE store
    /\ outcome' = "normal"
    /\ found_matches' = (found_matches \/ pattern_found)
    /\ IF iidx < Len(ids)
       THEN /\ iidx' = iidx + 1
            /\ pc' = "open"
            /\ UNCHANGED <<cyc_found, pidx, ended>>
       ELSE /\ iidx' = iidx
            /\ AfterPattern(found_matches \/ pattern_found)
    /\ UNCHANGED <<search_patterns, cycle, auth_token, ids, feed, last_check_date, line_number,
                   last_date, start_checking, pattern_found, events, faulted, mail,
                   notified, bounced, emitted, due>>

\* _process_log_stream after the last line and the rest of the instance loop turn:
\* the checkpoint write, the return value, the next instance or the return of analyze_file
EndOfStream ==
    /\ pc = "scan"
    /\ line_number = Len(feed)
    /\ store' = IF ShouldSave(last_date) THEN [store EXCEPT ![key] = last_date] ELSE store
    /\ outcome' = "normal"
    /\ found_matches' = (found_matches \/ pattern_found)
    /\ IF iidx < Len(ids)
       THEN /\ iidx' = iidx + 1
            /\ pc' = "open"
            /\ UNCHANGED <<cyc_found, pidx, ended>>
       ELSE /\ iidx' = iidx
            /\ AfterPattern(found_matches \/ pattern_found)
    /\ UNCHANGED <<search_patterns, cycle, auth_token, ids, feed, last_check_date, line_number,
                   last_date, start_checking, pattern_found, events, faulted, mail,
                   notified, bounced, emitted, due>>

\* Mutant of StreamFault: the checkpoint is written on the way out
StreamFaultSaves ==
    /\ pc = "scan"
    /\ outcome' = "aborted"
    /\ store' = IF last_date # None THEN [store EXCEPT ![key] = last_date] ELSE store
    /\ AfterPattern(FALSE)
    /\ UNCHANGED <<search_patterns, cycle, auth_token, ids, iidx, found_matches, feed,
                   last_check_date, line_number, last_date, start_checking,
                   pattern_found, events, faulted, mail, notified, bounced, emitted, due>>

\* iter_lines raises RequestException while the body is read: _process_log_stream
\* is left without its checkpoint write and analyze_file returns False
StreamFault ==
    /\ pc = "scan"
    /\ outcome' = "aborted"
    /\ AfterPattern(FALSE)
    /\ UNCHANGED <<search_patterns, store, cycle, auth_token, ids, iidx, found_matches, feed,
                   last_check_date, line_number, last_date, start_checking,
                   pattern_found, events, faulted, mail, notified, bounced, emitted, due>>

\* _save_last_check_date raises at open(filename, 'w') after the last line: the
\* OSError is no RequestException, so it leaves analyze_file and is caught by the
\* "except Exception" of check_files, which returns without its summary line.
\* The file is left as it was.
SaveFault ==
    /\ pc = "scan"
    /\ line_number = Len(feed)
    /\ ShouldSave(last_date)
    /\ outcome' = "unsaved"
    /\ pc' = "idle"
    /\ ended' = "error"
    /\ UNCHANGED <<search_patterns, store, cycle, auth_token, pidx, cyc_found, ids, iidx,
                   found_matches, feed, last_check_date, line_number, last_date,
                   start_checking, pattern_found, events, faulted, mail, notified,
                   bounced, emitted, due>>

AuthResults == {"ok", "request_error", "other_error"}
OpenResults == {"ok", "request_error"}
LineFaults == {"none", "early", "handler"}
MaxRecipients == Len(P1.mail)

Next ==
    \/ Trigger
    \/ \E r \in AuthResults : Auth(r)
    \/ \E d \in Discoveries : Discover(d)
    \/ \E r \in OpenResults, b \in Bodies(CycleLines, MaxBody) : OpenStream(r, b)
    \/ \E f \in LineFaults, m \in 0..MaxRecipients : ReadLine(f, m)
    \/ EndOfStream
    \/ StreamFault
    \/ SaveFault

Spec == Init /\ [][Next]_vars

\* ------------------------------------------ one pattern, one instance
\* The monitor configured with the single pattern P1 while the platform keeps
\* reporting the one instance i1: every cycle is one scan of the key (a, i1).
TheKey == <<"a", "i1">>

InitScan ==
    /\ search_patterns = <<P1>>
    /\ store \in {f \in [Keys -> {None} \cup Stamps] : f[<<"a", "i2">>] = None}
    /\ InitProgram

NextScan ==
    \/ Trigger
    \/ Auth("ok")
    \/ Discover(<<"i1">>)
    \/ \E b \in Bodies(Lines, MaxLines) : OpenStream("ok", b)
    \/ \E f \in LineFaults, m \in 0..MaxRecipients : ReadLine(f, m)
    \/ EndOfStream
    \/ StreamFault

SpecScan == InitScan /\ [][NextScan]_vars

\* The same, with a log file that does not change between the scans and no fault:
\* feed holds the file from the start and every response serves it again.
InitRescan ==
    /\ search_patterns = <<P1>>
    /\ store \in {f \in [Keys -> {None} \cup Stamps] : f[<<"a", "i2">>] = None}
    /\ InitLocals
    /\ feed \in Bodies(Lines, MaxLines)

NextRescan ==
    \/ Trigger
    \/ Auth("ok")
    \/ Discover(<<"i1">>)
    \/ OpenStream("ok", feed)
    \/ \E m \in 0..MaxRecipients : ReadLine("none", m)
    \/ EndOfStream

SpecRescan == InitRescan /\ [][NextRescan]_vars

\* ----------------------------------- two patterns on one application
\* Both patterns P1 and P2 watch application "a"; no checkpoint exists when the
\* run starts, the platform reports the instance i1, the log does not change and
\* nothing fails.
InitShared ==
    /\ search_patterns = <<P1, P2>>
    /\ store = [k \in Keys |-> None]
    /\ InitLocals
    /\ feed \in Bodies(CycleLines, MaxBody)

SpecShared == InitShared /\ [][NextRescan]_vars

\* ------------------------------------------------------ the matching test
\* One configured pattern with any search string up to MaxText symbols, no
\* checkpoint, and a log of one line up to MaxText symbols without marker token,
\* so that _check_pattern is called for the line.
MatchTexts == UNION {[1..k -> {" ", "E", "e"}] : k \in 1..MaxText}

InitMatch ==
    /\ \E q \in MatchTexts : search_patterns = <<[P1 EXCEPT !.search_string = q]>>
    /\ store = [k \in Keys |-> None]
    /\ InitLocals
    /\ \E t \in MatchTexts : feed = <<t>>

SpecMatch == InitMatch /\ [][NextRescan]_vars

\* ------------------------------------------------------- the schedule
\* run with its timer: the initial check_files call, then the job registered with
\* schedule.every(check_interval) falls due as time passes, whatever the loop
\* is doing, and is started by run_pending when the loop gets there.
InitialCheck == cycle = 0 /\ CheckFilesCall /\ UNCHANGED due

\* The interval of the registered job has passed
Tick ==
    /\ cycle >= 1
    /\ pc # "exited"
    /\ ~due
    /\ due' = TRUE
    /\ UNCHANGED <<search_patterns, store, pc, cycle, auth_token, pidx, cyc_found, ids,
                   iidx, found_matches, emitted, ended>>
    /\ UNCHANGED scanvars

\* Mutant of RunPending: the due job is started from a timer thread, whatever
\* the main loop is doing
RunPendingThreaded ==
    /\ due
    /\ cycle >= 1
    /\ cycle < MaxCycles
    /\ pc # "exited"
    /\ due' = FALSE
    /\ cycle' = cycle + 1
    /\ pc' = "auth"
    /\ auth_token' = "none"
    /\ last_check_date' = None
    /\ line_number' = 0
    /\ last_date' = None
    /\ start_checking' = TRUE
    /\ pattern_found' = FALSE
    /\ events' = <<>>
    /\ faulted' = {}
    /\ mail' = NoMail
    /\ outcome' = "none"
    /\ notified' = 0
    /\ bounced' = FALSE
    /\ emitted' = FALSE
    /\ ended' = "none"
    /\ UNCHANGED <<search_patterns, store, pidx, cyc_found, ids, iidx, found_matches, feed>>

\* schedule.run_pending in the loop of run: the due job is called, in the same thread
RunPending ==
    /\ due
    /\ cycle >= 1
    /\ due' = FALSE
    /\ CheckFilesCall

InitTimer ==
    /\ search_patterns = <<P1>>
    /\ store \in {f \in [Keys -> {None} \cup CycleStamps] : f[<<"a", "i2">>] = None}
    /\ InitProgram

NextTimer ==
    \/ InitialCheck
    \/ Tick
    \/ RunPending
    \/ Auth("ok")
    \/ Discover(<<"i1">>)
    \/ \E b \in Bodies(CycleLines, MaxBody) : OpenStream("ok", b)
    \/ \E m \in 0..MaxRecipients : ReadLine("none", m)
    \/ EndOfStream

SpecTimer == InitTimer /\ [][NextTimer]_vars

\* ------------------------------------------------------------------ claims
\* A marker line: it holds INFO and _extract_date finds a timestamp before it
IsMarker(line) == HasInfo(line) /\ ExtractDate(line) # None

Range(q) == {q[i] : i \in 1..Len(q)}

\* Lines read so far that match P1 and lie at or after the first marker line
\* whose timestamp is string-greater than the checkpoint given to the scan
QualifyingLines ==
    {k \in 1..line_number :
        /\ CheckPattern(feed[k], P1.search_string)
        /\ \E j \in 1..k : /\ IsMarker(feed[j])
                           /\ StrGreater(ExtractDate(feed[j]), last_check_date)}

\* C1: in a scan that starts with a checkpoint and in which no line faults, the
\* MatchEvents are exactly the matching lines at or after the first marker line
\* whose timestamp is string-greater than the checkpoint, one event per line.
C1_GatedMatches ==
    (outcome # "none" /\ last_check_date # None /\ faulted = {})
        => /\ Range(events) = QualifyingLines
           /\ Len(events) = Cardinality(QualifyingLines)

\* A finished fault-free scan from a checkpoint in which one matching line stayed
\* gated and a later one emitted its event
C1_Witness ==
    /\ outcome = "normal" /\ last_check_date # None /\ faulted = {}
    /\ \E k \in 1..line_number, e \in Range(events) :
          k < e /\ CheckPattern(feed[k], P1.search_string) /\ k \notin Range(events)

\* C2: no step lowers a stored checkpoint in string order.
C2_NeverDecreases ==
    [][\A k \in Keys : store[k] # None =>
            (store'[k] # None /\ ~StrLess(store'[k], store[k]))]_vars

\* C3: analyze_file leaves the instance loop only after the last discovered
\* instance, so a fault on one instance leaves no later instance unscanned.
C3_InstanceIsolation ==
    [][(pc \in {"open", "scan"} /\ pc' \notin {"open", "scan"}) => iidx = Len(ids)]_vars

C5_EveryRecipient ==
    (pc = "scan" /\ mail.line # 0) => mail.attempted = pattern.mail

\* C6: the checkpoint of the scanned instance is as it was when the scan started
\* while the scan runs, after a scan aborted by a stream fault, and after a scan
\* that ended normally without a marker line in its stream.
C6_CheckpointFrame ==
    (\/ outcome \in {"running", "aborted"}
     \/ (outcome = "normal" /\ ~\E j \in 1..Len(feed) : IsMarker(feed[j])))
        => store[TheKey] = last_check_date

\* A scan aborted after it saw a newer marker line and sent an alert
C6_Witness ==
    /\ outcome = "aborted"
    /\ last_check_date # None /\ last_date # None /\ last_date # last_check_date
    /\ mail.line # 0

\* C7: when the first scan of a stream persisted a checkpoint, the second scan of
\* the unchanged stream, started from that checkpoint, emits no MatchEvent and
\* leaves the checkpoint unchanged.
C7_Idempotent ==
    (cycle >= 2 /\ outcome = "normal" /\ \E j \in 1..Len(feed) : IsMarker(feed[j]))
        => (events = <<>> /\ store[TheKey] = last_check_date)

\* C8: after a fault-free scan that ended normally and saw a marker line, no
\* marker timestamp of the stream is string-greater than the stored checkpoint.
C8_NewestPersisted ==
    (outcome = "normal" /\ faulted = {} /\ \E j \in 1..Len(feed) : IsMarker(feed[j]))
        => /\ store[TheKey] # None
           /\ \A j \in 1..Len(feed) :
                 IsMarker(feed[j]) => ~StrGreater(ExtractDate(feed[j]), store[TheKey])

\* Lines read without a fault that match P1 while the gate is open by the
\* absence of a checkpoint or by a marker line that was itself read without a fault
OwedEvents ==
    {k \in (1..line_number) \ faulted :
        /\ CheckPattern(feed[k], P1.search_string)
        /\ \/ last_check_date = None
           \/ \E j \in (1..k) \ faulted : /\ IsMarker(feed[j])
                                         /\ StrGreater(ExtractDate(feed[j]), last_check_date)}

CleanMarkers == {j \in (1..line_number) \ faulted : IsMarker(feed[j])}

\* The string-greatest timestamp of the marker lines read without a fault
NewestClean ==
    CHOOSE t \in {ExtractDate(feed[j]) : j \in CleanMarkers} :
        \A j \in CleanMarkers : ~StrGreater(ExtractDate(feed[j]), t)

\* C10: after a scan that ended normally the checkpoint is the newest timestamp of
\* the marker lines read without a fault (untouched when there is none), and a
\* gate that opened during the scan was opened by such a line.
C10_FaultedLineContributesNothing ==
    outcome = "normal" =>
        /\ store[TheKey] = IF CleanMarkers = {} THEN last_check_date ELSE NewestClean
        /\ (last_check_date # None /\ start_checking) =>
               \E j \in CleanMarkers : StrGreater(ExtractDate(feed[j]), last_check_date)

\* C11: when a cycle that passed authentication has reached its summary, the
\* aggregate result found_matches of check_files is TRUE exactly when
\* _handle_pattern_match was called at least once in that cycle, whatever faults
\* the other instances and patterns met.
C11_AggregateIffEmitted ==
    (pc = "idle" /\ auth_token = "ok" /\ ended = "summary") => (cyc_found <=> emitted)

\* C12: a fault at one instance of one pattern (stream open, stream read or the
\* checkpoint write that ends its scan) never ends the cycle: check_files goes
\* back to the loop of run only after the last pattern and with its summary.
C12_FaultStaysInInstance ==
    [][(pc \in {"open", "scan"} /\ pc' = "idle")
          => (pidx = Len(search_patterns) /\ ended' = "summary")]_vars

\* C13: a discovery that fails for the app_name of one pattern skips this pattern
\* only: no checkpoint is read or written, no stream is opened, and check_files
\* goes on with the next pattern (or prints its summary after the last one).
C13_DiscoveryFailureSkipsPattern ==
    [][(pc = "discover" /\ pc' # "open")
          => /\ store' = store
             /\ last_check_date' = last_check_date
             /\ feed' = feed /\ outcome' = outcome /\ events' = events
             /\ IF pidx < Len(search_patterns)
                THEN pc' = "discover" /\ pidx' = pidx + 1
                ELSE pc' = "idle" /\ ended' = "summary"]_vars

\* The discovery of the first pattern failed in the first cycle and the second
\* pattern is up, with nothing opened so far
C13_Witness ==
    /\ cycle = 1 /\ pc = "discover" /\ pidx = 2
    /\ ids = <<>> /\ outcome = "none" /\ feed = <<>>

\* C14: a scan of a key without checkpoint starts ACTIVE: every non-empty line
\* from line 1 on, the plain lines before the first marker included, is run
\* against the pattern, and each line that matches (and raised nothing) has
\* emitted its MatchEvent.
C14_NoCheckpointStartsActive ==
    (pc = "scan" /\ store[TheKey] = None)
       => /\ start_checking
          /\ \A k \in 1..line_number :
                (k \notin faulted /\ feed[k] # <<>> /\ CheckPattern(feed[k], P1.search_string))
                   => k \in Range(events)

\* No checkpoint, a plain matching line before the first marker, both lines emitted
C14_Witness ==
    /\ pc = "scan" /\ store[TheKey] = None
    /\ line_number = 2 /\ ~HasInfo(feed[1]) /\ IsMarker(feed[2])
    /\ events = <<1, 2>> /\ faulted = {}

\* The timestamp of the newest marker line among the first k lines of the feed
RECURSIVE StampAt(_)
StampAt(k) ==
    IF k = 0 THEN None
    ELSE IF IsMarker(feed[k]) THEN ExtractDate(feed[k]) ELSE StampAt(k - 1)

\* C15: matches are not batched: as long as no delivery of the scan failed (and no
\* line raised), a scan that emitted k MatchEvents for a pattern with n recipients
\* has called the notifier k * n times, and the last call went to every recipient
\* with the line and the timestamp of the last event.
C15_OnePerEventAndRecipient ==
    (faulted = {} /\ ~bounced)
       => /\ notified = Len(events) * Len(P1.mail)
          /\ events # <<>>
                => /\ mail.line = events[Len(events)]
                   /\ mail.time = StampAt(mail.line)
                   /\ mail.attempted = P1.mail
                   /\ mail.delivered = P1.mail

\* Two events of one scan, four notifications, the last one for line 2
C15_Witness ==
    /\ events = <<1, 2>> /\ faulted = {} /\ ~bounced
    /\ notified = 4 /\ mail.line = 2 /\ mail.time # None

\* A cycle is in progress: check_files has been called and has not returned
InCycle == pc \in {"auth", "discover", "open", "scan"}

\* C16: cycles never overlap: a cycle starts only while no cycle is in progress,
\* also when the trigger fell due during a cycle; and from the checkpoint read of
\* a scan to the end of that scan the stored value of its key stays the value
\* read, so no read-then-write sequence of another cycle comes in between.
C16_CyclesNeverOverlap ==
    [][/\ cycle' # cycle => (~InCycle /\ pc' = "auth")
       /\ (due /\ InCycle) => cycle' = cycle
       /\ pc = "scan" => /\ last_check_date = GetLastCheckDate(key)
                         /\ pc' = "scan" => store' = store]_vars

\* The second cycle is scanning, started after the first one returned, and the
\* trigger has fallen due again meanwhile
C16_Witness == cycle = 2 /\ pc = "scan" /\ due /\ line_number = 1

\* Runs of spaces collapsed to one space; with Strip, the normal form the
\* specification gives for both sides of the matching test
RECURSIVE Collapse(_)
Collapse(s) ==
    IF Len(s) <= 1 THEN s
    ELSE IF s[1] = " " /\ s[2] = " " THEN Collapse(Tail(s))
    ELSE <<s[1]>> \o Collapse(Tail(s))

\* C17: _check_pattern reports a match (and the MatchEvent of the line is
\* emitted) exactly when the search string, whitespace-collapsed and trimmed, is
\* a contiguous substring of the line normalised the same way, symbol by symbol
\* with upper and lower case kept apart.
C17_MatchIffNormalizedSubstring ==
    (pc = "scan" /\ line_number = 1)
       => (events = <<1>>
             <=> Contains(Collapse(Strip(pattern.search_string)), Collapse(Strip(feed[1]))))

\* A search string with a run of spaces matched a line holding the same words
\* with one space and surrounding blanks
C17_Witness ==
    /\ pc = "scan" /\ line_number = 1 /\ events = <<1>>
    /\ pattern.search_string = <<"E", " ", " ", "e">>
    /\ feed[1] = <<" ", "E", " ", "e">>

\* C18: a match ends nothing early.  The step that emits a MatchEvent stays in the
\* scan and moves to the next line; a scan that matched reaches its normal end
\* only after its last line, writes the checkpoint of its instance there (when a
\* marker was seen), and is followed by the next instance of the pattern, else by
\* the next pattern, else by the summary.
C18_NoEarlyExit ==
    [][/\ (pc = "scan" /\ Len(events') > Len(events))
          => (pc' = "scan" /\ feed' = feed /\ line_number' = line_number + 1)
       /\ (pc = "scan" /\ pattern_found /\ outcome' = "normal")
          => /\ line_number = Len(feed)
             /\ ShouldSave(last_date) => store'[key] = last_date
             /\ IF iidx < Len(ids)
                THEN pc' = "open" /\ iidx' = iidx + 1 /\ pidx' = pidx
                ELSE IF pidx < Len(search_patterns)
                THEN pc' = "discover" /\ pidx' = pidx + 1
                ELSE pc' = "idle" /\ ended' = "summary"]_vars

\* The first pattern matched, and so did the first instance of the second
\* pattern; its second instance is being scanned: line 1 matched and line 2 was
\* read after it
C18_Witness ==
    /\ cycle = 1 /\ pidx = 2 /\ iidx = 2 /\ pc = "scan"
    /\ cyc_found /\ found_matches
    /\ line_number = 2 /\ 1 \in Range(events)

\* C19: within one scan the gate never closes again: a line read while
\* start_checking holds leaves it holding, and when the line matches and raises
\* nothing its MatchEvent is emitted, also when the line is a marker whose
\* timestamp is not greater than the checkpoint.
C19_GateStaysOpen ==
    [][(pc = "scan" /\ start_checking /\ line_number' = line_number + 1)
          => /\ start_checking'
             /\ LET n == line_number'
                IN  (n \notin faulted' /\ feed[n] # <<>>
                        /\ CheckPattern(feed[n], P1.search_string))
                       => events' = Append(events, n)]_vars

\* A scan with a checkpoint was opened by line 1; line 2, a marker not newer
\* than the checkpoint, was matched as well
C19_Witness ==
    /\ pc = "scan" /\ last_check_date # None /\ line_number = 2
    /\ IsMarker(feed[2]) /\ ~StrGreater(ExtractDate(feed[2]), last_check_date)
    /\ events = <<1, 2>> /\ start_checking

\* C20: in a fault-free cycle every configured pattern is matched against every
\* line newer than the checkpoint held when the cycle started, also after an
\* earlier pattern of the same app_name wrote the shared checkpoint.  In the first
\* cycle of a run that started without checkpoints every line is such a line, so
\* each line read that matches the pattern of the scan has its MatchEvent.
C20_EveryPatternSeesNewLines ==
    (cycle = 1 /\ pc = "scan")
       => \A k \in 1..line_number :
             (feed[k] # <<>> /\ CheckPattern(feed[k], pattern.search_string))
                => k \in Range(events)

====
